---- MODULE Spec2Model ----
(***************************************************************************)
(* Model of the interruptible-operation framework of videolib-cli          *)
(* (src/cli/interactive_main.py): the KeyboardListener and its monitoring  *)
(* threads, the FFmpegMonitor / ProgressTracker renderers, the download    *)
(* runner (_download_with_interrupt_support) with its child process, and   *)
(* the download and split workflows driven from InteractiveCLI.run.        *)
(*                                                                         *)
(* The main thread is a program counter pc plus a position sub inside the  *)
(* start/stop method it is executing.  Listener threads, renderer threads, *)
(* the child process, the library call and SIGINT are separate actions     *)
(* that interleave with the main thread.                                   *)
(*                                                                         *)
(* FFmpegMonitor.parse_ffmpeg_line is modelled character by character (a   *)
(* line is a sequence of one-character strings, each pattern is matched as *)
(* re.search matches it); ParseSpec runs it on its own over generated      *)
(* lines and prior snapshots.  DisplaySpec runs the status line of         *)
(* FFmpegMonitor._display_stats over operation names and snapshots.        *)
(*                                                                         *)
(* ScaleEncodeCommand.execute_workflow (src/cli/scale_encode_command.py),  *)
(* which is handed the same listener and tracker, is run by EncodeSpec.    *)
(***************************************************************************)
EXTENDS Integers, Sequences, FiniteSets, TLC

\* ---------------------------------------------------------------- bounds
\* number of supervised operations (start_listening calls) in one run
MaxOps == 2
\* number of KeyboardInterrupts (SIGINT) delivered in one run
MaxInterrupts == 1
\* number of bounded joins that time out in one run
MaxTimeouts == 1

Threads == 1..MaxOps
ExitCodes == {"0", "1"}
\* sizes of the output file the child may leave behind
FileSizes == {0, 7}
\* stdin is a terminal (raw mode can be entered) or is not
Platforms == {"tty", "notty"}

VARIABLES
    pc,               \* main thread: statement about to be executed
    sub,              \* main thread: position inside a start/stop method
    op,               \* workflow chosen at the menu
    pending,          \* what the main thread carries through a handler or a
                      \* finally block: an exception, a return
    result,           \* value returned by the runner / the library call
    msgs,             \* outcome messages printed for the current operation
    should_quit,      \* KeyboardListener.should_quit
    listening,        \* KeyboardListener.listening
    listener_thread,  \* KeyboardListener.listener_thread (0 = None)
    lt,               \* the listener threads created so far
    term,             \* input mode of the terminal
    mon_running,      \* FFmpegMonitor.running
    mon_thread,       \* FFmpegMonitor.display_thread
    trk_running,      \* ProgressTracker.running
    trk_thread,       \* ProgressTracker.thread
    final_newlines,   \* newlines written by the stop calls of this operation
    operation_name,   \* FFmpegMonitor.operation_name
    stats_line,       \* the status line _display_stats wrote last
    stats,            \* FFmpegMonitor.stats
    child,            \* the child process of the runner
    line_ready,       \* the pipe holds a line the runner has not read
    pipe_open,        \* the child still holds its stdout open
    returncode,       \* Popen.returncode: exit code of the child, once exited
    lineArg,          \* argument of parse_ffmpeg_line, when run on its own
    fileExists,       \* the output file exists
    fileSize,         \* its size
    platform,         \* what stdin is on this run
    termSent,         \* process.terminate() was called
    killSent,         \* process.kill() was called
    graceTimedOut,    \* process.wait(timeout=5) raised TimeoutExpired
    return_code,      \* local return_code of the runner
    epoch,            \* number of start_listening calls so far
    quitEpoch,        \* operation in which the key that set should_quit was read
    quitHist,         \* should_quit was set to true during the current operation
    quitAtReport,     \* quitHist when the workflow classified the outcome
    kiLeft,           \* KeyboardInterrupts still to be delivered
    toLeft,           \* join timeouts still to happen
    kiSeen            \* a KeyboardInterrupt was delivered in this operation

vars == << pc, sub, op, pending, result, msgs, should_quit, listening,
           listener_thread, lt, term, mon_running, mon_thread, trk_running,
           trk_thread, final_newlines, operation_name, stats_line, stats, child, line_ready, pipe_open, returncode, lineArg,
           fileExists, fileSize, platform, termSent, killSent, graceTimedOut,
           return_code, epoch, quitEpoch, quitHist, quitAtReport, kiLeft,
           toLeft, kiSeen >>

listenerVars == << should_quit, listening, listener_thread, lt, term, epoch,
                   quitEpoch, quitHist, platform >>
rendererVars == << mon_running, mon_thread, trk_running, trk_thread,
                  final_newlines, operation_name, stats_line >>
\* what a renderer writes to the terminal
screenVars == << final_newlines, operation_name, stats_line >>
childVars == << child, line_ready, pipe_open, returncode, fileExists,
                fileSize >>
runnerVars == << termSent, killSent, graceTimedOut, return_code, lineArg,
                 stats >>
flowVars == << op, pending, result, msgs, quitAtReport >>
kiVars == << kiLeft, toLeft, kiSeen >>
\* kiVars without the timeout budget
intVars == << kiLeft, kiSeen >>

NoThread == [pc |-> "none", old |-> "cooked", kop |-> 0]

Alive(t) == t # 0 /\ lt[t].pc # "none"

NumAlive == Cardinality({t \in Threads : lt[t].pc # "none"})

\* ------------------------------------------------- main-thread call sites
\* statements of the workflows that call KeyboardListener.start_listening
StartListeningPcs == {"d_start", "s_start", "p_start", "e_start"}
\* statements that call KeyboardListener.stop_listening
StopListeningPcs ==
    {"d_fin1", "d_fin2", "s_fin1b", "s_fin2", "x_fin", "p_fin1b", "e_fin1b"}
\* statements that call FFmpegMonitor.stop_display
StopDisplayPcs == {"r_stop", "r_exc", "d_fin1b", "d_fin2b"}
\* statements that call ProgressTracker.stop
TrackerStopPcs == {"s_fin1", "p_fin1", "e_fin1"}
\* statements that call ProgressTracker.start
TrackerStartPcs == {"s_trk", "p_trk", "e_trk"}

\* the statement executed after the call at p has returned normally
AfterCall(p, pend) ==
    CASE p = "d_start" -> "r_startdisp"
      [] p = "r_startdisp" -> "r_popen"
      [] p = "r_stop" -> "r_classify"
      [] p = "r_exc" -> "r_excret"
      [] p = "d_fin1" -> "d_fin1b"
      [] p = "d_fin1b" -> IF pend = "return" THEN "d_fin2" ELSE "d_decide"
      [] p = "d_fin2" -> "d_fin2b"
      [] p = "d_fin2b" -> "menu"
      [] p = "s_start" -> "s_trk"
      [] p = "s_trk" -> "s_call"
      [] p = "s_fin1" -> "s_fin1b"
      [] p = "s_fin1b" -> IF pend = "Exc" THEN "s_exc"
                          ELSE IF pend = "KI" THEN "s_ki" ELSE "s_decide"
      [] p = "s_fin2" -> "menu"
      [] p = "x_fin" -> "done"
      [] p = "p_start" -> "p_trk"
      [] p = "p_trk" -> "p_call"
      [] p = "p_fin1" -> "p_fin1b"
      [] p = "p_fin1b" -> "p_quit"
      [] p = "e_start" -> "e_trk"
      [] p = "e_trk" -> "e_call"
      [] p = "e_fin1" -> "e_fin1b"
      [] p = "e_fin1b" -> "e_quit"
      [] OTHER -> "done"

\* ------------------------------------------------------ KeyboardListener
\* start_listening, lines 33-34: the flag is cleared and listening is set
StartListeningReset ==
    /\ pc \in StartListeningPcs /\ sub = ""
    /\ should_quit' = FALSE
    /\ listening' = TRUE
    /\ epoch' = epoch + 1
    /\ quitHist' = FALSE /\ quitEpoch' = 0
    /\ sub' = "spawn"
    /\ UNCHANGED << pc, listener_thread, lt, term, platform >>
    /\ UNCHANGED << rendererVars, childVars, runnerVars, flowVars, kiVars >>

\* start_listening, lines 36-43: a new thread is created and started,
\* whatever the state of an earlier one
StartListeningSpawn ==
    /\ pc \in StartListeningPcs /\ sub = "spawn"
    /\ lt' = [lt EXCEPT ![epoch] = [pc |-> "t_init", old |-> "cooked", kop |-> 0]]
    /\ listener_thread' = epoch
    /\ pc' = AfterCall(pc, pending) /\ sub' = ""
    /\ UNCHANGED << should_quit, listening, term, epoch, quitEpoch, quitHist,
                    platform >>
    /\ UNCHANGED << rendererVars, childVars, runnerVars, flowVars, kiVars >>

\* Thread.join(timeout): returns when the thread has finished, and also,
\* when the wait is bounded, when the timeout has elapsed
JoinUnbounded(alive, bounded) == ~alive

JoinReturns(alive, bounded) == ~alive \/ bounded

\* the join returned with the thread still alive: one timeout is used up
TimedOut(alive) == alive /\ toLeft > 0

\* stop_listening clears the flag together with listening
StopListeningClear ==
    /\ pc \in StopListeningPcs /\ sub = ""
    /\ listening' = FALSE
    /\ should_quit' = FALSE
    /\ sub' = "join"
    /\ UNCHANGED << pc, listener_thread, lt, term, epoch, quitEpoch, quitHist,
                    platform >>
    /\ UNCHANGED << rendererVars, childVars, runnerVars, flowVars, kiVars >>

\* stop_listening, line 47
StopListeningFlag ==
    /\ pc \in StopListeningPcs /\ sub = ""
    /\ listening' = FALSE
    /\ sub' = "join"
    /\ UNCHANGED << pc, should_quit, listener_thread, lt, term, epoch,
                    quitEpoch, quitHist, platform >>
    /\ UNCHANGED << rendererVars, childVars, runnerVars, flowVars, kiVars >>

\* stop_listening, lines 48-49: join(timeout=0.5) on the last thread
StopListeningJoin ==
    /\ pc \in StopListeningPcs /\ sub = "join"
    /\ JoinReturns(Alive(listener_thread), TRUE)
    /\ \/ ~Alive(listener_thread) /\ toLeft' = toLeft
       \/ TimedOut(Alive(listener_thread)) /\ toLeft' = toLeft - 1
    /\ pc' = AfterCall(pc, pending) /\ sub' = ""
    /\ UNCHANGED << listenerVars, rendererVars, childVars, runnerVars,
                    flowVars, intVars >>

\* _listen_unix, lines 69-77: import termios, save the settings, enter raw
\* mode; an ImportError or OSError ends the thread with the terminal as it was
\* every platform is taken to have a terminal on stdin
RawAssumed(p) == TRUE

\* tcgetattr and setraw succeed when stdin is a terminal
RawAvailable(p) == p = "tty"

ListenerEnterRaw(t) ==
    /\ lt[t].pc = "t_init"
    /\ \/ /\ RawAvailable(platform)
          /\ lt' = [lt EXCEPT ![t] = [pc |-> "t_loop", old |-> term, kop |-> 0]]
          /\ term' = "raw"
       \/ /\ lt' = [lt EXCEPT ![t] = NoThread]
          /\ term' = term
    /\ UNCHANGED << pc, sub, should_quit, listening, listener_thread, epoch,
                    quitEpoch, quitHist, platform >>
    /\ UNCHANGED << rendererVars, childVars, runnerVars, flowVars, kiVars >>

\* _listen_unix, lines 79-89: the loop test, select and the read of one
\* key.  The key is 'q', or there is no key / another key; when the loop
\* test fails or the read raises, the finally block restores the saved
\* settings and the thread ends.
ListenerPoll(t) ==
    /\ lt[t].pc = "t_loop"
    /\ IF listening /\ ~should_quit
         THEN \/ /\ lt' = [lt EXCEPT ![t].pc = "t_gotq", ![t].kop = epoch]
                 /\ term' = term
              \/ /\ lt' = [lt EXCEPT ![t] = NoThread]
                 /\ term' = lt[t].old
              \/ /\ lt' = lt
                 /\ term' = term
         ELSE /\ lt' = [lt EXCEPT ![t] = NoThread]
              /\ term' = lt[t].old
    /\ UNCHANGED << pc, sub, should_quit, listening, listener_thread,
                    epoch, quitEpoch, quitHist, platform >>
    /\ UNCHANGED << rendererVars, childVars, runnerVars, flowVars, kiVars >>

\* _listen_unix, lines 84-89: the thread that read 'q' sets the flag,
\* leaves the loop, restores the saved settings and ends
ListenerSetQuit(t) ==
    /\ lt[t].pc = "t_gotq"
    /\ should_quit' = TRUE
    /\ quitEpoch' = lt[t].kop
    /\ quitHist' = TRUE
    /\ term' = lt[t].old
    /\ lt' = [lt EXCEPT ![t] = NoThread]
    /\ UNCHANGED << pc, sub, listening, listener_thread, epoch, platform >>
    /\ UNCHANGED << rendererVars, childVars, runnerVars, flowVars, kiVars >>

\* ------------------------------------------ FFmpegMonitor, ProgressTracker
\* line 489: the name the download starts its display with
Download == << "D", "o", "w", "n", "l", "o", "a", "d" >>

\* FFmpegMonitor.start_display, lines 114-115
StartDisplayFlag(name) ==
    /\ pc = "r_startdisp" /\ sub = ""
    /\ mon_running' = TRUE
    /\ operation_name' = name
    /\ sub' = "spawn"
    /\ UNCHANGED << pc, mon_thread, trk_running, trk_thread, final_newlines,
                    stats_line >>
    /\ UNCHANGED << listenerVars, childVars, runnerVars, flowVars, kiVars >>

\* FFmpegMonitor.start_display, lines 116-117
StartDisplaySpawn ==
    /\ pc = "r_startdisp" /\ sub = "spawn"
    /\ mon_thread' = "alive"
    /\ pc' = AfterCall(pc, pending) /\ sub' = ""
    /\ UNCHANGED << mon_running, trk_running, trk_thread, screenVars >>
    /\ UNCHANGED << listenerVars, childVars, runnerVars, flowVars, kiVars >>

\* FFmpegMonitor.stop_display, lines 121-124: running is cleared and the
\* display thread is joined for at most 1 s: the thread has left its loop
\* by then, or the join times out and the thread is still alive; then
\* print() writes a newline
StopDisplay ==
    /\ pc \in StopDisplayPcs
    /\ mon_running' = FALSE
    /\ \/ mon_thread' = "none" /\ toLeft' = toLeft
       \/ /\ TimedOut(mon_thread = "alive") /\ JoinReturns(TRUE, TRUE)
          /\ mon_thread' = mon_thread /\ toLeft' = toLeft - 1
    /\ final_newlines' = final_newlines + 1
    /\ pc' = AfterCall(pc, pending)
    /\ UNCHANGED << sub, trk_running, trk_thread, operation_name, stats_line >>
    /\ UNCHANGED << listenerVars, childVars, runnerVars, flowVars, intVars >>

\* lines 180-187: the status line before truncation
StatusLine(name, st) ==
    << "\r" >> \o name
      \o << " ", "-", ">", " ", "T", "i", "m", "e", ":", " " >> \o st.time
      \o << " ", "|", " ", "S", "i", "z", "e", ":", " " >> \o st.size
      \o << " ", "|", " ", "B", "i", "t", "r", "a", "t", "e", ":", " " >>
      \o st.bitrate
      \o << " ", "|", " ", "S", "p", "e", "e", "d", ":", " " >> \o st.speed
      \o << " ", "|", " ", "F", "P", "S", ":", " " >> \o st.fps
      \o << " ", "|", " ", "P", "r", "e", "s", "s", " ", "'", "q", "'", " ",
            "t", "o", " ", "c", "a", "n", "c", "e", "l" >>

\* the line is written as it is, however long
Untruncated(line) == line

\* lines 190-191: a line of more than 120 characters is cut
Truncated(line) ==
    IF Len(line) > 120
      THEN SubSeq(line, 1, 115) \o << ".", ".", "." >>
      ELSE line

\* FFmpegMonitor._display_stats, lines 179-194: one turn of the loop: the
\* loop test, then the status line is built, cut and written
DisplayStatsStep ==
    /\ mon_thread = "alive"
    /\ IF mon_running /\ ~should_quit
         THEN /\ mon_thread' = "alive"
              /\ stats_line' = Truncated(StatusLine(operation_name, stats))
         ELSE /\ mon_thread' = "none"
              /\ stats_line' = stats_line
    /\ UNCHANGED << pc, sub, mon_running, trk_running, trk_thread,
                    final_newlines, operation_name >>
    /\ UNCHANGED << listenerVars, childVars, runnerVars, flowVars, kiVars >>

\* ProgressTracker.start, lines 208-210
TrackerStartFlag ==
    /\ pc \in TrackerStartPcs /\ sub = ""
    /\ trk_running' = TRUE
    /\ sub' = "spawn"
    /\ UNCHANGED << pc, mon_running, mon_thread, trk_thread, screenVars >>
    /\ UNCHANGED << listenerVars, childVars, runnerVars, flowVars, kiVars >>

\* ProgressTracker.start, lines 211-212
TrackerStartSpawn ==
    /\ pc \in TrackerStartPcs /\ sub = "spawn"
    /\ trk_thread' = "alive"
    /\ pc' = AfterCall(pc, pending) /\ sub' = ""
    /\ UNCHANGED << mon_running, mon_thread, trk_running, screenVars >>
    /\ UNCHANGED << listenerVars, childVars, runnerVars, flowVars, kiVars >>

\* ProgressTracker.stop, lines 222-225: as FFmpegMonitor.stop_display
TrackerStop ==
    /\ pc \in TrackerStopPcs
    /\ trk_running' = FALSE
    /\ \/ trk_thread' = "none" /\ toLeft' = toLeft
       \/ /\ TimedOut(trk_thread = "alive") /\ JoinReturns(TRUE, TRUE)
          /\ trk_thread' = trk_thread /\ toLeft' = toLeft - 1
    /\ final_newlines' = final_newlines + 1
    /\ pc' = AfterCall(pc, pending)
    /\ UNCHANGED << sub, mon_running, mon_thread, operation_name, stats_line >>
    /\ UNCHANGED << listenerVars, childVars, runnerVars, flowVars, intVars >>

\* ProgressTracker._display_progress, lines 229-236: one turn of the loop
DisplayProgressStep ==
    /\ trk_thread = "alive"
    /\ trk_thread' = IF trk_running /\ ~should_quit THEN "alive" ELSE "none"
    /\ UNCHANGED << pc, sub, mon_running, mon_thread, trk_running,
                    screenVars >>
    /\ UNCHANGED << listenerVars, childVars, runnerVars, flowVars, kiVars >>

\* ------------------------------------------ FFmpegMonitor.parse_ffmpeg_line
\* A line of text is a sequence of one-character strings.
Digits == {"0", "1", "2", "3", "4", "5", "6", "7", "8", "9"}
Letters ==
    {"a", "b", "c", "d", "e", "f", "g", "h", "i", "j", "k", "l", "m", "n",
     "o", "p", "q", "r", "s", "t", "u", "v", "w", "x", "y", "z",
     "A", "B", "C", "D", "E", "F", "G", "H", "I", "J", "K", "L", "M", "N",
     "O", "P", "Q", "R", "S", "T", "U", "V", "W", "X", "Y", "Z"}
\* the regular-expression classes \w, [\d.] and \s
WordChars == Digits \cup Letters \cup {"_"}
NumChars == Digits \cup {"."}
Spaces == {" "}

\* FFmpegMonitor.__init__, lines 99-107: the neutral defaults
DefaultStats ==
    [bitrate |-> << "0", "k", "b", "i", "t", "s", "/", "s" >>,
     speed   |-> << "0", "x" >>,
     size    |-> << "0", "k", "B" >>,
     time    |-> << "0", "0", ":", "0", "0", ":", "0", "0" >>,
     fps     |-> << "0" >>,
     drop    |-> << "0" >>,
     dup     |-> << "0" >>]

StatFields == {"bitrate", "speed", "size", "time", "fps", "drop", "dup"}

\* the literal each field is looked for with (lines 133-169)
KeyOf(f) ==
    CASE f = "fps" -> << "f", "p", "s", "=" >>
      [] f = "time" -> << "t", "i", "m", "e", "=" >>
      [] f = "bitrate" -> << "b", "i", "t", "r", "a", "t", "e", "=" >>
      [] f = "speed" -> << "s", "p", "e", "e", "d", "=" >>
      [] f = "size" -> << "s", "i", "z", "e", "=" >>
      [] f = "drop" -> << "d", "r", "o", "p", "=" >>
      [] OTHER -> << "d", "u", "p", "=" >>

\* the character at position i, "" past the end
At(s, i) == IF i \in 1..Len(s) THEN s[i] ELSE ""

\* length of the longest run of characters of a class that starts at i
RECURSIVE RunLen(_, _, _)
RunLen(s, i, class) ==
    IF i <= Len(s) /\ s[i] \in class THEN 1 + RunLen(s, i + 1, class) ELSE 0

StartsAt(s, i, lit) ==
    /\ i + Len(lit) - 1 <= Len(s)
    /\ SubSeq(s, i, i + Len(lit) - 1) = lit

\* Python's  lit in s
Contains(s, lit) == \E i \in 1..Len(s) : StartsAt(s, i, lit)

\* The part of each pattern after its key, matched at position i as the
\* backtracking matcher of re does; from..to is the captured group.
NoMatch == [ok |-> FALSE, from |-> 0, to |-> 0]

\* line 134:  \s*(\d+(?:\.\d+)?)
MatchNumber(s, i) ==
    LET a == i + RunLen(s, i, Spaces)
        n == RunLen(s, a, Digits)
        m == IF At(s, a + n) = "." THEN RunLen(s, a + n + 1, Digits) ELSE 0
    IN  IF n = 0 THEN NoMatch
        ELSE [ok |-> TRUE, from |-> a,
              to |-> IF m > 0 THEN a + n + m ELSE a + n - 1]

\* line 140:  (\d+:\d+:\d+\.\d+)
MatchClock(s, i) ==
    LET h  == RunLen(s, i, Digits)
        j  == i + h + 1
        m  == RunLen(s, j, Digits)
        k  == j + m + 1
        sc == RunLen(s, k, Digits)
        l  == k + sc + 1
        fr == RunLen(s, l, Digits)
    IN  IF /\ h > 0 /\ At(s, i + h) = ":"
           /\ m > 0 /\ At(s, j + m) = ":"
           /\ sc > 0 /\ At(s, k + sc) = "."
           /\ fr > 0
          THEN [ok |-> TRUE, from |-> i, to |-> l + fr - 1]
          ELSE NoMatch

\* lines 146 and 158:  \s*([\d.]+\w+)   [\d.]+ takes the longest run it can
\* and gives characters back until \w+ has at least one character
MatchQuantity(s, i) ==
    LET a  == i + RunLen(s, i, Spaces)
        r  == RunLen(s, a, NumChars)
        ks == {k \in 1..r : At(s, a + k) \in WordChars}
        k  == CHOOSE x \in ks : \A y \in ks : y <= x
    IN  IF ks = {} THEN NoMatch
        ELSE [ok |-> TRUE, from |-> a,
              to |-> a + k - 1 + RunLen(s, a + k, WordChars)]

\* line 152:  \s*([\d.]+x)
MatchSpeed(s, i) ==
    LET a == i + RunLen(s, i, Spaces)
        r == RunLen(s, a, NumChars)
    IN  IF r > 0 /\ At(s, a + r) = "x"
          THEN [ok |-> TRUE, from |-> a, to |-> a + r]
          ELSE NoMatch

\* lines 164 and 169:  (\d+)
MatchInteger(s, i) ==
    LET n == RunLen(s, i, Digits)
    IN  IF n = 0 THEN NoMatch
        ELSE [ok |-> TRUE, from |-> i, to |-> i + n - 1]

\* the pattern of a field, matched right after its key
MatchValue(f, s, i) ==
    CASE f = "fps" -> MatchNumber(s, i)
      [] f = "time" -> MatchClock(s, i)
      [] f \in {"bitrate", "size"} -> MatchQuantity(s, i)
      [] f = "speed" -> MatchSpeed(s, i)
      [] OTHER -> MatchInteger(s, i)

\* re.match: the key and the value pattern at the start of the line only
MatchAtStart(f, s) ==
    IF StartsAt(s, 1, KeyOf(f)) THEN MatchValue(f, s, 1 + Len(KeyOf(f)))
    ELSE NoMatch

\* re.search: the leftmost position at which the key and then the value
\* pattern match
Search(f, s) ==
    LET key == KeyOf(f)
        ps  == {i \in 1..Len(s) :
                  StartsAt(s, i, key) /\ MatchValue(f, s, i + Len(key)).ok}
        p   == CHOOSE x \in ps : \A y \in ps : x <= y
    IN  IF ps = {} THEN NoMatch ELSE MatchValue(f, s, p + Len(key))

\* group(1), and [:8] for the time field (line 142)
Captured(f, s, m) ==
    LET g == SubSeq(s, m.from, m.to)
    IN  IF f = "time" /\ Len(g) > 8 THEN SubSeq(g, 1, 8) ELSE g

\* lines 126-175: the snapshot after parsing line
parse_ffmpeg_line(st, line) ==
    IF line = << >> THEN st
    ELSE [f \in StatFields |->
            IF Contains(line, KeyOf(f)) /\ Search(f, line).ok
              THEN Captured(f, line, Search(f, line))
              ELSE st[f]]

\* ------------------------------------------------ the lines the child writes
\* a well-formed value of each field, as ffmpeg prints it
ValueOf(f) ==
    CASE f = "fps" -> << "3", "0" >>
      [] f = "time" -> << "0", "0", ":", "0", "0", ":", "0", "4", ".", "0", "0" >>
      [] f = "bitrate" -> << "1", "0", "0", "0", "k", "b", "i", "t", "s", "/", "s" >>
      [] f = "speed" -> << "2", ".", "0", "x" >>
      [] f = "size" -> << "1", "0", "2", "4", "k", "B" >>
      [] f = "drop" -> << "5" >>
      [] OTHER -> << "3" >>

TokenOf(f) == KeyOf(f) \o ValueOf(f)

\* frame=120: a well-formed token whose key is not a statistic of the snapshot
FrameToken == << "f", "r", "a", "m", "e", "=", "1", "2", "0" >>

ValidTokens == {TokenOf(f) : f \in StatFields} \cup {FrameToken}

\* tokens that do not fit the grammar: fps=abc, bitrate=1000, speed=2.0,
\* drop=5x, time=00:00:04, total_size=1234, hello
MalformedTokens ==
    {<< "f", "p", "s", "=", "a", "b", "c" >>,
     << "b", "i", "t", "r", "a", "t", "e", "=", "1", "0", "0", "0" >>,
     << "s", "p", "e", "e", "d", "=", "2", ".", "0" >>,
     << "d", "r", "o", "p", "=", "5", "x" >>,
     << "t", "i", "m", "e", "=", "0", "0", ":", "0", "0", ":", "0", "4" >>,
     << "t", "o", "t", "a", "l", "_", "s", "i", "z", "e", "=", "1", "2", "3", "4" >>,
     << "h", "e", "l", "l", "o" >>}

\* the tokens of a line are separated by one space
RECURSIVE Join(_)
Join(ts) ==
    IF ts = << >> THEN << >>
    ELSE IF Len(ts) = 1 THEN ts[1]
    ELSE ts[1] \o << " " >> \o Join(Tail(ts))

\* number of tokens of a generated line
MaxTokens == 2

TokenSeqs(S) == UNION {[1..n -> S] : n \in 0..MaxTokens}

\* frame=120 fps=30 time=00:00:04.00 bitrate=1000kbits/s speed=2.0x
ScenarioLine ==
    Join(<< FrameToken, TokenOf("fps"), TokenOf("time"), TokenOf("bitrate"),
            TokenOf("speed") >>)

\* the empty line included
MalformedLines == {Join(ts) : ts \in TokenSeqs(MalformedTokens)}

ParseLines ==
    {Join(ts) : ts \in TokenSeqs(ValidTokens \cup MalformedTokens)}
        \cup {ScenarioLine}

\* the lines the child of the download writes: a progress line, log noise
RunnerLines == {ScenarioLine, << "h", "e", "l", "l", "o" >>}

\* a snapshot left by earlier lines, no value of which is a value above
OtherStats ==
    [bitrate |-> << "9", "k", "b", "i", "t", "s", "/", "s" >>,
     speed   |-> << "9", "x" >>,
     size    |-> << "9", "k", "B" >>,
     time    |-> << "0", "0", ":", "0", "0", ":", "0", "9" >>,
     fps     |-> << "9" >>,
     drop    |-> << "9" >>,
     dup     |-> << "9" >>]

PriorStats == {DefaultStats, OtherStats}

\* ------------------------------------------------------ the child process
\* The child is observed by the runner only: its steps are modelled while
\* the runner is between Popen and its return.
RunnerPcs ==
    {"r_check", "r_term", "r_wait", "r_kill", "r_read", "r_poll", "r_stop",
     "r_classify", "r_exc", "r_excret"}

\* the child writes a line to its stdout
ChildEmit ==
    /\ pc \in RunnerPcs
    /\ child = "running" /\ pipe_open /\ ~line_ready
    /\ line_ready' = TRUE
    /\ UNCHANGED << child, pipe_open, returncode, fileExists, fileSize >>
    /\ UNCHANGED << pc, sub, listenerVars, rendererVars, runnerVars,
                    flowVars, kiVars >>

\* the child closes its stdout and keeps running
ChildClose ==
    /\ pc \in RunnerPcs
    /\ child = "running" /\ pipe_open
    /\ pipe_open' = FALSE
    /\ UNCHANGED << child, line_ready, returncode, fileExists, fileSize >>
    /\ UNCHANGED << pc, sub, listenerVars, rendererVars, runnerVars,
                    flowVars, kiVars >>

\* the child exits: by itself, on SIGTERM, or on SIGKILL; it leaves an exit
\* code, and an output file or none
ChildExit ==
    /\ pc \in RunnerPcs
    /\ child = "running"
    /\ child' = "exited"
    /\ pipe_open' = FALSE
    /\ \E c \in ExitCodes : returncode' = c
    /\ \/ fileExists' = FALSE /\ fileSize' = 0
       \/ fileExists' = TRUE /\ \E n \in FileSizes : fileSize' = n
    /\ UNCHANGED line_ready
    /\ UNCHANGED << pc, sub, listenerVars, rendererVars, runnerVars,
                    flowVars, kiVars >>

\* -------------------------------------- _download_with_interrupt_support
\* lines 493-511: Popen starts the child, or raises (executable not found)
RunnerPopen ==
    /\ pc = "r_popen"
    /\ \/ /\ child' = "running" /\ pipe_open' = TRUE /\ line_ready' = FALSE
          /\ pc' = "r_check" /\ pending' = pending
       \/ /\ UNCHANGED << child, pipe_open, line_ready >>
          /\ pc' = "r_exc" /\ pending' = "FileNotFoundError"
    /\ UNCHANGED << returncode, fileExists, fileSize >>
    /\ UNCHANGED << sub, op, result, msgs, quitAtReport >>
    /\ UNCHANGED << listenerVars, rendererVars, runnerVars, kiVars >>

\* line 516: the top of the pump loop reads the flag
RunnerCheck ==
    /\ pc = "r_check"
    /\ pc' = IF should_quit THEN "r_term" ELSE "r_read"
    /\ UNCHANGED << sub, listenerVars, rendererVars, childVars, runnerVars,
                    flowVars, kiVars >>

\* lines 517-518: process.terminate()
RunnerTerminate ==
    /\ pc = "r_term"
    /\ termSent' = TRUE
    /\ pc' = "r_wait"
    /\ UNCHANGED << killSent, graceTimedOut, return_code, lineArg, stats >>
    /\ UNCHANGED << sub, listenerVars, rendererVars, childVars, flowVars,
                    kiVars >>

\* the child is killed although it exited within the grace period
KillAnyway == "r_kill"

\* line 520 returned: the child exited within the grace period; line 524
AfterWaitExited == "r_poll"

\* where the runner goes when the grace-period wait has timed out
SkipKill == "r_poll"

AfterWaitTimeout == "r_kill"

\* lines 519-521: process.wait(timeout=5) returns when the child has exited
\* and raises TimeoutExpired when it is still running after the grace period
RunnerWait ==
    /\ pc = "r_wait"
    /\ IF child = "exited"
         THEN pc' = AfterWaitExited /\ graceTimedOut' = graceTimedOut
         ELSE pc' = AfterWaitTimeout /\ graceTimedOut' = TRUE
    /\ UNCHANGED << termSent, killSent, return_code, lineArg, stats >>
    /\ UNCHANGED << sub, listenerVars, rendererVars, childVars, flowVars,
                    kiVars >>

\* lines 522-524: process.kill(), then break
RunnerKill ==
    /\ pc = "r_kill"
    /\ killSent' = TRUE
    /\ pc' = "r_poll"
    /\ UNCHANGED << termSent, graceTimedOut, return_code, lineArg, stats >>
    /\ UNCHANGED << sub, listenerVars, rendererVars, childVars, flowVars,
                    kiVars >>

\* an empty read ends the loop whether or not the child has exited
EndOnEmptyRead(exited) == TRUE

\* line 528: after an empty read the loop ends when poll() is not None
EndOfPump(exited) == exited

\* lines 527-532: readline() blocks until a line or end-of-stream; a line
\* is parsed, an undecodable line raises, '' with an exited child breaks
RunnerRead ==
    /\ pc = "r_read"
    /\ line_ready \/ ~pipe_open
    /\ IF line_ready
         THEN /\ line_ready' = FALSE
              /\ \/ /\ pc' = "r_exc" /\ pending' = "UnicodeDecodeError"
                    /\ stats' = stats
                 \/ \E output \in RunnerLines :
                      /\ stats' = parse_ffmpeg_line(stats, output)
                      /\ pc' = "r_check" /\ pending' = pending
         ELSE /\ line_ready' = line_ready /\ stats' = stats
              /\ pending' = pending
              /\ pc' = IF EndOfPump(child = "exited") THEN "r_poll"
                                                       ELSE "r_check"
    /\ UNCHANGED << child, pipe_open, returncode, fileExists, fileSize >>
    /\ UNCHANGED << termSent, killSent, graceTimedOut, return_code, lineArg >>
    /\ UNCHANGED << sub, op, result, msgs, quitAtReport >>
    /\ UNCHANGED << listenerVars, rendererVars, kiVars >>

\* line 535: return_code = process.poll(): the exit code of the child, or
\* None when it has not exited (yet)
RunnerPoll ==
    /\ pc = "r_poll"
    /\ return_code' = returncode
    /\ pc' = "r_stop"
    /\ UNCHANGED << termSent, killSent, graceTimedOut, lineArg, stats >>
    /\ UNCHANGED << sub, listenerVars, rendererVars, childVars, flowVars,
                    kiVars >>

\* file_size = None
NoSize == -1

\* lines 547-552, 554-559, 563-568: the object the runner returns
ResultObj(ok, size, msg) ==
    [kind |-> "Result", success |-> ok, output_file |-> "output_filename",
     file_size |-> size, error_message |-> msg]

\* None, and the value of result before the runner has returned
NoResult(k) ==
    [kind |-> k, success |-> FALSE, output_file |-> "", file_size |-> NoSize,
     error_message |-> << >>]

\* line 558: the message of a failed download
FailedMessage(code) == << "FFmpeg process failed with code ", code >>

\* lines 541-559: the value the runner returns
RunnerResult(q, code, exists, size) ==
    IF q THEN NoResult("None")
    ELSE IF code = "0" /\ exists
           THEN ResultObj(TRUE, size, << >>)
           ELSE ResultObj(FALSE, NoSize, FailedMessage(code))

RunnerClassify ==
    /\ pc = "r_classify"
    /\ result' = RunnerResult(should_quit, return_code, fileExists, fileSize)
    /\ pc' = "d_fin1"
    /\ UNCHANGED << op, pending, msgs, quitAtReport >>
    /\ UNCHANGED << sub, listenerVars, rendererVars, childVars, runnerVars,
                    kiVars >>

\* the handler lets the exception go and returns None
ExceptionLost(e) == NoResult("None")

\* lines 563-568: the result built by the except Exception handler
ExceptionResult(e) == ResultObj(FALSE, NoSize, << "str(e)", e >>)

\* lines 563-568: the except Exception handler returns a failed result
RunnerExcReturn ==
    /\ pc = "r_excret"
    /\ result' = ExceptionResult(pending)
    /\ pending' = "none"
    /\ pc' = "d_fin1"
    /\ UNCHANGED << op, msgs, quitAtReport >>
    /\ UNCHANGED << sub, listenerVars, rendererVars, childVars, runnerVars,
                    kiVars >>

\* ------------------------------------------- download_video_interactive
\* lines 461-473: the message printed once the inner finally has run
ReportExitFirst(q, res) ==
    IF res.kind = "Result" /\ res.success THEN "Completed"
    ELSE IF q THEN "Cancelled" ELSE "Failed"

\* the flag is not looked at: None is reported as a failure
ReportNoneAsFailed(q, res) ==
    IF res.kind = "Result" /\ res.success THEN "Completed" ELSE "Failed"

DownloadReport(q, res) ==
    IF q THEN "Cancelled"
    ELSE IF res.kind = "Result" /\ res.success THEN "Completed" ELSE "Failed"

DownloadDecide ==
    /\ pc = "d_decide"
    /\ msgs' = msgs \cup {DownloadReport(should_quit, result)}
    /\ quitAtReport' = quitHist
    /\ pc' = "d_fin2"
    /\ UNCHANGED << op, pending, result >>
    /\ UNCHANGED << sub, listenerVars, rendererVars, childVars, runnerVars,
                    kiVars >>

\* ---------------------------------------- split_video_interactive, step 6
\* lines 707-721: the library call starts on the main thread
SplitCall ==
    /\ pc = "s_call"
    /\ pc' = "s_wait"
    /\ UNCHANGED << sub, listenerVars, rendererVars, childVars, runnerVars,
                    flowVars, kiVars >>

\* line 721: split_by_size returns its result
LibraryReturn(r) ==
    /\ pc = "s_wait"
    /\ result' = ResultObj(r, NoSize, << >>)
    /\ pc' = "s_fin1"
    /\ UNCHANGED << op, pending, msgs, quitAtReport >>
    /\ UNCHANGED << sub, listenerVars, rendererVars, childVars, runnerVars,
                    kiVars >>

\* line 721: split_by_size raises an Exception
LibraryRaise ==
    /\ pc = "s_wait"
    /\ pending' = "Exc"
    /\ pc' = "s_fin1"
    /\ UNCHANGED << op, result, msgs, quitAtReport >>
    /\ UNCHANGED << sub, listenerVars, rendererVars, childVars, runnerVars,
                    kiVars >>

\* the result of the library call is shown whatever the flag
SplitShowResult(q, res) ==
    IF res.success THEN "Completed" ELSE "Failed"

\* lines 728-777: the message printed once the inner finally has run
SplitReport(q, res) ==
    IF q THEN "Cancelled"
    ELSE IF res.success THEN "Completed" ELSE "Failed"

SplitDecide ==
    /\ pc = "s_decide"
    /\ msgs' = msgs \cup {SplitReport(should_quit, result)}
    /\ quitAtReport' = quitHist
    /\ pc' = "s_fin2"
    /\ UNCHANGED << op, pending, result >>
    /\ UNCHANGED << sub, listenerVars, rendererVars, childVars, runnerVars,
                    kiVars >>

\* lines 779-782: the handlers of the outer try, after the inner finally
SplitExcept ==
    /\ pc \in {"s_exc", "s_ki"}
    /\ msgs' = msgs \cup {IF pc = "s_exc" THEN "Failed" ELSE "Cancelled"}
    /\ pending' = "none"
    /\ pc' = "s_fin2"
    /\ UNCHANGED << op, result, quitAtReport >>
    /\ UNCHANGED << sub, listenerVars, rendererVars, childVars, runnerVars,
                    kiVars >>

\* ------------------------------------ ScaleEncodeCommand (scale_encode_command.py)
\* The command is built with the KeyboardListener and the ProgressTracker
\* (lines 62-76).  The main thread carries in pending the value a return
\* statement has produced, or the exception in flight, through the finally
\* blocks; when execute_workflow is left (pc = "w_done") pending is what
\* the caller gets: "True", "False", or the exception that came out.

\* execute_workflow, lines 99-105: _get_input_file gives a path, or None
\* and the workflow reports the error and returns False
WorkflowInput ==
    /\ pc = "w_input"
    /\ op' = "encode"
    /\ \/ /\ pc' = "p_start"
          /\ UNCHANGED << pending, msgs >>
       \/ /\ msgs' = msgs \cup {"Failed"}
          /\ pending' = "False" /\ pc' = "w_ret"
    /\ UNCHANGED << result, quitAtReport >>
    /\ UNCHANGED << sub, listenerVars, rendererVars, childVars, runnerVars,
                    kiVars >>

\* _detect_properties, line 178: the library call starts
DetectCall ==
    /\ pc = "p_call"
    /\ pc' = "p_wait"
    /\ UNCHANGED << sub, listenerVars, rendererVars, childVars, runnerVars,
                    flowVars, kiVars >>

\* lines 178-179: detect_advance_media_properties returns
DetectReturn ==
    /\ pc = "p_wait"
    /\ pending' = "props"
    /\ pc' = "p_fin1"
    /\ UNCHANGED << op, result, msgs, quitAtReport >>
    /\ UNCHANGED << sub, listenerVars, rendererVars, childVars, runnerVars,
                    kiVars >>

\* line 178: detect_advance_media_properties raises an Exception
DetectRaise ==
    /\ pc = "p_wait"
    /\ pending' = "Exc"
    /\ pc' = "p_fin1"
    /\ UNCHANGED << op, result, msgs, quitAtReport >>
    /\ UNCHANGED << sub, listenerVars, rendererVars, childVars, runnerVars,
                    kiVars >>

\* lines 184-185, after tracker.stop and stop_listening: the flag raises
\* KeyboardInterrupt in place of the return or the exception in flight;
\* otherwise the properties are returned or the exception goes on
DetectFinally ==
    /\ pc = "p_quit"
    /\ IF should_quit \/ pending = "KI"
         THEN pc' = "w_ki" /\ pending' = "none"
         ELSE IF pending = "Exc"
                THEN pc' = "w_exc" /\ pending' = pending
                ELSE pc' = "w_output" /\ pending' = "none"
    /\ UNCHANGED << op, result, msgs, quitAtReport >>
    /\ UNCHANGED << sub, listenerVars, rendererVars, childVars, runnerVars,
                    kiVars >>

\* execute_workflow, lines 109-132: the settings are collected; no output
\* file, or the user declines, and the workflow returns False; or the user
\* confirms and _execute_encoding is called
WorkflowOutput ==
    /\ pc = "w_output"
    /\ \/ /\ msgs' = msgs \cup {"Failed"}
          /\ pending' = "False" /\ pc' = "w_ret"
       \/ /\ msgs' = msgs \cup {"Cancelled"}
          /\ pending' = "False" /\ pc' = "w_ret"
       \/ /\ pc' = "e_start"
          /\ UNCHANGED << pending, msgs >>
    /\ UNCHANGED << op, result, quitAtReport >>
    /\ UNCHANGED << sub, listenerVars, rendererVars, childVars, runnerVars,
                    kiVars >>

\* _execute_encoding, line 489: the library call starts
EncodeCall ==
    /\ pc = "e_call"
    /\ pc' = "e_wait"
    /\ UNCHANGED << sub, listenerVars, rendererVars, childVars, runnerVars,
                    flowVars, kiVars >>

\* line 489: scale_and_encode returns its result
EncodeReturn(r) ==
    /\ pc = "e_wait"
    /\ result' = ResultObj(r, NoSize, << >>)
    /\ pc' = "e_report"
    /\ UNCHANGED << op, pending, msgs, quitAtReport >>
    /\ UNCHANGED << sub, listenerVars, rendererVars, childVars, runnerVars,
                    kiVars >>

\* line 489: scale_and_encode raises an Exception
EncodeRaise ==
    /\ pc = "e_wait"
    /\ pending' = "Exc"
    /\ pc' = "e_fin1"
    /\ UNCHANGED << op, result, msgs, quitAtReport >>
    /\ UNCHANGED << sub, listenerVars, rendererVars, childVars, runnerVars,
                    kiVars >>

\* lines 491-498: the outcome is printed and the return value is produced
EncodeReport ==
    /\ pc = "e_report"
    /\ msgs' = msgs \cup {IF result.success THEN "Completed" ELSE "Failed"}
    /\ pending' = IF result.success THEN "True" ELSE "False"
    /\ pc' = "e_fin1"
    /\ UNCHANGED << op, result, quitAtReport >>
    /\ UNCHANGED << sub, listenerVars, rendererVars, childVars, runnerVars,
                    kiVars >>

\* lines 503-505, after tracker.stop and stop_listening: when the flag is
\* true the cancellation is printed and return False replaces the return
\* value or the exception in flight
EncodeFinally ==
    /\ pc = "e_quit"
    /\ quitAtReport' = quitHist
    /\ IF should_quit
         THEN /\ msgs' = msgs \cup {"Cancelled"}
              /\ pending' = "False" /\ pc' = "w_ret"
         ELSE /\ msgs' = msgs /\ pending' = pending
              /\ pc' = CASE pending = "Exc" -> "w_exc"
                         [] pending = "KI" -> "w_ki"
                         [] OTHER -> "w_ret"
    /\ UNCHANGED << op, result >>
    /\ UNCHANGED << sub, listenerVars, rendererVars, childVars, runnerVars,
                    kiVars >>

\* execute_workflow, lines 134-136: except KeyboardInterrupt
WorkflowInterrupted ==
    /\ pc = "w_ki"
    /\ msgs' = msgs \cup {"Cancelled"}
    /\ pending' = "False" /\ pc' = "w_ret"
    /\ UNCHANGED << op, result, quitAtReport >>
    /\ UNCHANGED << sub, listenerVars, rendererVars, childVars, runnerVars,
                    kiVars >>

\* line 138: the message of the handler is built from
\* e.with_traceback.format_exc(); with_traceback is a method of the
\* exception and has no attribute format_exc, so the lookup raises
HandlerMessage(e) == "AttributeError"

\* lines 137-141: except Exception; building the message (line 138) raises
\* inside the handler, and that exception leaves execute_workflow
WorkflowException ==
    /\ pc = "w_exc"
    /\ pending' = HandlerMessage(pending)
    /\ pc' = "w_done"
    /\ UNCHANGED << op, result, msgs, quitAtReport >>
    /\ UNCHANGED << sub, listenerVars, rendererVars, childVars, runnerVars,
                    kiVars >>

\* a return statement of execute_workflow completes
WorkflowReturn ==
    /\ pc = "w_ret"
    /\ pc' = "w_done"
    /\ UNCHANGED << sub, listenerVars, rendererVars, childVars, runnerVars,
                    flowVars, kiVars >>

\* ------------------------------------------------------------------ Init
\* the objects of InteractiveCLI.__init__ (lines 241-247) before any workflow
Idle ==
    /\ sub = "" /\ op = "none" /\ pending = "none"
    /\ result = NoResult("unset") /\ msgs = {}
    /\ should_quit = FALSE /\ listening = FALSE /\ listener_thread = 0
    /\ lt = [t \in Threads |-> NoThread]
    /\ term = "cooked"
    /\ mon_running = FALSE /\ mon_thread = "none"
    /\ trk_running = FALSE /\ trk_thread = "none"
    /\ final_newlines = 0 /\ stats_line = << >>
    /\ child = "none" /\ line_ready = FALSE /\ pipe_open = FALSE
    /\ returncode = "None"
    /\ fileExists = FALSE /\ fileSize = 0
    /\ termSent = FALSE /\ killSent = FALSE /\ graceTimedOut = FALSE
    /\ return_code = "None"
    /\ epoch = 0 /\ quitEpoch = 0 /\ quitHist = FALSE /\ quitAtReport = FALSE
    /\ kiLeft = MaxInterrupts /\ kiSeen = FALSE /\ toLeft = MaxTimeouts

Init ==
    /\ Idle
    /\ pc = "menu"
    /\ stats = DefaultStats /\ lineArg = << >>
    /\ operation_name = << >>
    /\ platform \in Platforms

\* ------------------------------------------------------ InteractiveCLI.run
\* lines 1285-1311: the flag is reset, the menu is shown, a workflow or
\* exit is chosen; the state of the previous operation is dropped
Menu ==
    /\ pc = "menu"
    /\ should_quit' = FALSE
    /\ quitHist' = FALSE
    /\ \/ /\ epoch < MaxOps
          /\ \/ op' = "download" /\ pc' = "d_start"
             \/ op' = "split" /\ pc' = "s_start"
       \/ op' = "none" /\ pc' = "x_fin"
    /\ pending' = "none" /\ result' = NoResult("unset") /\ msgs' = {}
    /\ quitAtReport' = FALSE
    /\ child' = "none" /\ line_ready' = FALSE /\ pipe_open' = FALSE
    /\ returncode' = "None" /\ lineArg' = lineArg
    /\ fileExists' = FALSE /\ fileSize' = 0
    /\ termSent' = FALSE /\ killSent' = FALSE /\ graceTimedOut' = FALSE
    /\ return_code' = "None"
    /\ kiSeen' = FALSE
    /\ quitEpoch' = 0
    /\ UNCHANGED << sub, listening, listener_thread, lt, term, epoch,
                    platform, stats, kiLeft, toLeft >>
    /\ final_newlines' = 0 /\ stats_line' = << >>
    /\ UNCHANGED << mon_running, mon_thread, trk_running, trk_thread,
                    operation_name >>

\* statements inside the inner try of download_video_interactive (445-451),
\* the runner included
DownloadInnerPcs ==
    {"d_start", "r_startdisp", "r_popen", "r_check", "r_term", "r_wait",
     "r_kill", "r_read", "r_poll", "r_stop", "r_classify", "r_exc",
     "r_excret"}
\* statements of the inner finally and after it, inside the outer try
DownloadOuterPcs == {"d_fin1", "d_fin1b", "d_decide"}
\* statements of the outer finally blocks (479-482, 783-784)
OuterFinallyPcs == {"d_fin2", "d_fin2b", "s_fin2"}
\* statements of split_video_interactive before its inner try (704-705)
SplitBeforeTryPcs == {"s_start", "s_trk"}
\* statements inside the inner try (707-721)
SplitTryPcs == {"s_call", "s_wait"}
\* statements of the inner finally and after it (724-777)
SplitOuterPcs == {"s_fin1", "s_fin1b", "s_decide"}
\* statements inside the try of _detect_properties (177-179) and of
\* _execute_encoding (488-498)
EncodeTryPcs == {"p_call", "p_wait", "e_call", "e_wait", "e_report"}
\* the other statements inside the try of execute_workflow (98-132)
WorkflowTryPcs ==
    {"w_input", "p_start", "p_trk", "p_fin1", "p_fin1b", "p_quit", "w_output",
     "e_start", "e_trk", "e_fin1", "e_fin1b", "e_quit"}

\* A KeyboardInterrupt is raised in the main thread at the statement it is
\* executing and runs the handlers that enclose that statement:
\*   452-455 (inner except of the download), 475-476 and 779-780 (outer
\*   except of a workflow), 1315-1317 (except of the menu loop);
\*   in scale_encode_command.py the finally blocks at 180 and 499 and the
\*   handler at 134.
KeyboardInterrupt ==
    /\ kiLeft > 0
    /\ kiLeft' = kiLeft - 1 /\ kiSeen' = TRUE /\ toLeft' = toLeft
    /\ sub' = ""
    /\ CASE pc \in DownloadInnerPcs ->
              /\ msgs' = msgs \cup {"Cancelled"}
              /\ pending' = "return" /\ pc' = "d_fin1"
         [] pc \in DownloadOuterPcs ->
              /\ msgs' = msgs \cup {"Cancelled"}
              /\ pending' = "none" /\ pc' = "d_fin2"
         [] pc \in OuterFinallyPcs ->
              /\ msgs' = msgs /\ pending' = "none" /\ pc' = "menu"
         [] pc \in SplitBeforeTryPcs ->
              /\ msgs' = msgs \cup {"Cancelled"}
              /\ pending' = "none" /\ pc' = "s_fin2"
         [] pc \in SplitTryPcs ->
              /\ msgs' = msgs /\ pending' = "KI" /\ pc' = "s_fin1"
         [] pc \in SplitOuterPcs ->
              /\ msgs' = msgs \cup {"Cancelled"}
              /\ pending' = "none" /\ pc' = "s_fin2"
         [] pc = "p_wait" \/ pc = "p_call" ->
              /\ msgs' = msgs /\ pending' = "KI" /\ pc' = "p_fin1"
         [] pc \in EncodeTryPcs ->
              /\ msgs' = msgs /\ pending' = "KI" /\ pc' = "e_fin1"
         [] pc \in WorkflowTryPcs ->
              /\ msgs' = msgs /\ pending' = "none" /\ pc' = "w_ki"
         [] OTHER -> FALSE
    /\ UNCHANGED << op, result, quitAtReport >>
    /\ UNCHANGED << listenerVars, rendererVars, childVars, runnerVars >>

\* ------------------------------------------------------------ specification
\* the steps of the main thread
MainNext ==
    \/ Menu
    \/ StartListeningReset \/ StartListeningSpawn
    \/ StopListeningFlag \/ StopListeningJoin
    \/ StartDisplayFlag(Download) \/ StartDisplaySpawn
    \/ StopDisplay
    \/ TrackerStartFlag \/ TrackerStartSpawn
    \/ TrackerStop
    \/ RunnerPopen \/ RunnerCheck \/ RunnerTerminate \/ RunnerWait
    \/ RunnerKill \/ RunnerRead \/ RunnerPoll \/ RunnerClassify
    \/ RunnerExcReturn
    \/ DownloadDecide
    \/ SplitCall \/ SplitDecide \/ SplitExcept

\* the steps of the background threads
ThreadNext ==
    \/ \E t \in Threads : ListenerEnterRaw(t)
    \/ \E t \in Threads : ListenerPoll(t)
    \/ \E t \in Threads : ListenerSetQuit(t)
    \/ DisplayStatsStep
    \/ DisplayProgressStep

\* the steps of the environment: child process, library, SIGINT
EnvNext ==
    \/ ChildEmit
    \/ ChildClose
    \/ ChildExit
    \/ \E r \in BOOLEAN : LibraryReturn(r)
    \/ LibraryRaise
    \/ KeyboardInterrupt

Next == MainNext \/ ThreadNext \/ EnvNext

Spec == Init /\ [][Next]_vars

\* The main thread always gets to run.  Nothing is assumed of the listener
\* and renderer threads (a thread may be unresponsive), of the child, or of
\* the library call (it may never return).
FairSpec == Spec /\ WF_vars(MainNext)

\* ------------------------------------------------ the parser on its own
\* parse_ffmpeg_line applied once to a line and a prior snapshot, as the
\* runner does at line 532
parseFrame ==
    << sub, op, pending, result, msgs, should_quit, listening,
       listener_thread, lt, term, mon_running, mon_thread, trk_running,
       trk_thread, final_newlines, operation_name, stats_line, child, line_ready, pipe_open, returncode, lineArg,
       fileExists, fileSize, platform, termSent, killSent, graceTimedOut,
       return_code, epoch, quitEpoch, quitHist, quitAtReport, kiLeft,
       toLeft, kiSeen >>

ParseInit ==
    /\ Idle
    /\ pc = "parse_line"
    /\ stats \in PriorStats /\ lineArg \in ParseLines
    /\ operation_name = << >>
    /\ platform = "tty"

ParseCall ==
    /\ pc = "parse_line"
    /\ stats' = parse_ffmpeg_line(stats, lineArg)
    /\ pc' = "parse_done"
    /\ UNCHANGED parseFrame

ParseNext == ParseCall

ParseSpec == ParseInit /\ [][ParseNext]_vars

\* ------------------------------------------- the status line on its own
\* longest operation name the display is started with
MaxNameLen == 40

\* an operation name of n characters
NameOf(n) == [i \in 1..n |-> "x"]

\* the names start_display is called with: "Download" (line 489) and, as
\* the parameter is any string, names of every length up to MaxNameLen
OperationNames == {Download} \cup {NameOf(n) : n \in 0..MaxNameLen}

\* start_display with a name, then the display thread writes the line of
\* a snapshot
DisplayInit ==
    /\ Idle
    /\ pc = "r_startdisp"
    /\ stats \in PriorStats /\ lineArg = << >>
    /\ operation_name = << >>
    /\ platform = "tty"

DisplayNext ==
    \/ \E name \in OperationNames : StartDisplayFlag(name)
    \/ StartDisplaySpawn
    \/ DisplayStatsStep

DisplaySpec == DisplayInit /\ [][DisplayNext]_vars

\* --------------------------------------- the encode workflow on its own
\* execute_workflow called once with the listener and the tracker of the
\* program
EncodeInit ==
    /\ Idle
    /\ pc = "w_input"
    /\ stats = DefaultStats /\ lineArg = << >>
    /\ operation_name = << >>
    /\ platform \in Platforms

EncodeMainNext ==
    \/ WorkflowInput \/ WorkflowOutput
    \/ StartListeningReset \/ StartListeningSpawn
    \/ StopListeningFlag \/ StopListeningJoin
    \/ TrackerStartFlag \/ TrackerStartSpawn
    \/ TrackerStop
    \/ DetectCall \/ DetectFinally
    \/ EncodeCall \/ EncodeReport \/ EncodeFinally
    \/ WorkflowInterrupted \/ WorkflowException \/ WorkflowReturn

EncodeEnvNext ==
    \/ DetectReturn
    \/ DetectRaise
    \/ \E r \in BOOLEAN : EncodeReturn(r)
    \/ EncodeRaise
    \/ KeyboardInterrupt

EncodeThreadNext ==
    \/ \E t \in Threads : ListenerEnterRaw(t)
    \/ \E t \in Threads : ListenerPoll(t)
    \/ \E t \in Threads : ListenerSetQuit(t)
    \/ DisplayProgressStep

EncodeNext == EncodeMainNext \/ EncodeThreadNext \/ EncodeEnvNext

EncodeSpec == EncodeInit /\ [][EncodeNext]_vars

\* ===================================================================
\* Properties
\* ===================================================================

\* the statements of the download workflow reached once the runner has
\* returned or raised
AfterRunnerPcs == {"d_fin1", "d_fin1b", "d_decide", "d_fin2", "d_fin2b"}
\* the pump loop of the runner (514-532)
PumpLoopPcs == {"r_check", "r_read", "r_term"}

\* C1: when control is back at the main menu after a workflow, the listener
\* is not listening and no renderer is running, on every exit path of the
\* workflow (completion, 'q', Exception, KeyboardInterrupt).
C1_AllStoppedAtMenu ==
    (pc = "menu" /\ epoch > 0) =>
        (~listening /\ ~mon_running /\ ~trk_running)

\* C2: a download whose cancellation flag became true before the workflow
\* classified the outcome is reported as Cancelled, never as Completed or
\* Failed, whatever the exit code of the child and the output file.
C2_CancelPriority ==
    (op = "download" /\ msgs \cap {"Completed", "Failed"} # {}) =>
        ~quitAtReport

\* the flag was true, the child had exited with code 0, the file existed,
\* and the workflow reported Cancelled
C2_Witness ==
    /\ op = "download" /\ ~kiSeen /\ quitAtReport
    /\ child = "exited" /\ return_code = "0" /\ fileExists
    /\ msgs = {"Cancelled"}

\* C3: once the flag is true while the child runs and the runner is in its
\* pump loop, the runner eventually sends terminate or leaves the loop,
\* even if the child stays silent and does not exit.
C3_CancelNotStarved ==
    (should_quit /\ child = "running" /\ pc \in PumpLoopPcs)
        ~> (termSent \/ pc \notin PumpLoopPcs)

\* C4: when the grace-period wait has timed out, the runner is not blocked:
\* it sends kill and leaves the loop (unless a KeyboardInterrupt takes it
\* out first), and the only outcome reported is Cancelled.
C4_ForcedKill ==
    graceTimedOut =>
        /\ pc = "r_kill" => ENABLED RunnerKill
        /\ (pc # "r_kill" /\ ~kiSeen) => killSent
        /\ msgs \subseteq {"Cancelled"}
        /\ pc \in {"d_fin2", "d_fin2b"} => "Cancelled" \in msgs

\* the child ignored terminate, was killed, and Cancelled was reported
C4_Witness ==
    /\ graceTimedOut /\ termSent /\ killSent /\ ~kiSeen
    /\ pc = "d_fin2" /\ msgs = {"Cancelled"}

\* C5: once the runner has returned or raised, its child has exited or has
\* been sent terminate or kill.
C5_NoChildLeftRunning ==
    (pc \in AfterRunnerPcs /\ child = "running") => (termSent \/ killSent)

\* C6: when stop_listening returns, the terminal is in the mode it had
\* before start_listening (line-buffered, echoing).
C6_RestoredWhenStopReturns ==
    [][(pc \in StopListeningPcs /\ sub = "join" /\ sub' = ""
        /\ kiLeft' = kiLeft) => term' = "cooked"]_vars

\* C7: a step of start_listening taken while a monitoring thread is alive
\* creates no further thread and leaves the flag and the thread handle as
\* they were.
C7_StartIdempotent ==
    [][(pc \in StartListeningPcs /\ sub' # sub /\ kiLeft' = kiLeft
        /\ NumAlive > 0)
          => /\ NumAlive' = NumAlive
             /\ listener_thread' = listener_thread
             /\ should_quit' = should_quit]_vars

C9_CancelledWithoutWaiting ==
    (pc = "s_wait" /\ should_quit) ~> ("Cancelled" \in msgs)

\* C10: when the work of an operation begins (start_listening has just
\* returned) the flag is false, or was set by a key read in this operation.
C10_FreshSignal ==
    (pc \in {"r_startdisp", "s_trk"} /\ sub = "") =>
        (should_quit => quitEpoch = epoch)

\* C11: when a download starts its display (start_display is about to run)
\* every field of the snapshot holds its neutral default.
C11_FreshSnapshot ==
    pc = "r_startdisp" => stats = DefaultStats

\* the main thread is inside an operation: start_listening has cleared the
\* flag and the workflow has not returned to the menu
InOperation ==
    /\ pc \notin {"menu", "x_fin", "done"}
    /\ ~(pc \in StartListeningPcs /\ sub = "")

\* C12: inside an operation the flag changes only from false to true, and
\* only in the step in which a listener thread that read the key sets it;
\* it never goes back to false and no other component writes it.
C12_FlagWrittenOnce ==
    [][(InOperation /\ should_quit' # should_quit)
          => /\ ~should_quit /\ should_quit'
             /\ pc' = pc /\ sub' = sub
             /\ \E t \in Threads : lt[t].pc = "t_gotq" /\ lt'[t].pc = "none"]_vars

\* the listener of this operation set the flag and the workflow is about
\* to read it
C12_Witness ==
    /\ pc = "d_decide" /\ should_quit /\ quitEpoch = epoch /\ ~kiSeen

\* the workflow has reported a download in which the flag was never set
\* and no KeyboardInterrupt was delivered
ReportedUncancelled ==
    /\ op = "download" /\ pc = "d_fin2" /\ sub = ""
    /\ ~quitHist /\ ~kiSeen

\* C13: a download that was not cancelled is reported Completed exactly
\* when the child exited with code 0 and the output file exists, and the
\* Completed result carries the output path and the size of that file.
C13_CompletedIffExitZeroAndFile ==
    ReportedUncancelled =>
        /\ ("Completed" \in msgs) <=> (returncode = "0" /\ fileExists)
        /\ "Completed" \in msgs =>
              /\ result.output_file = "output_filename"
              /\ result.file_size = fileSize

\* C14: a download that was not cancelled and whose child exited with a
\* nonzero code is reported Failed, with a message that contains the code.
C14_FailedCarriesExitCode ==
    (ReportedUncancelled /\ returncode \in ExitCodes \ {"0"}) =>
        /\ msgs = {"Failed"}
        /\ \E i \in 1..Len(result.error_message) :
              result.error_message[i] = returncode

\* the exceptions the runner meets: Popen fails, readline cannot decode
RunnerExceptions == {"FileNotFoundError", "UnicodeDecodeError"}

\* C15: an Exception raised while spawning the child or pumping its output
\* is caught by the runner: the handler stops the renderer and the runner
\* returns a failed result whose message is the text of the exception.
C15_ExceptionBecomesFailed ==
    [][/\ (pc \in {"r_popen", "r_read"} /\ pending' \in RunnerExceptions)
            => pc' = "r_exc"
       /\ (pc = "r_exc" /\ pc' # pc /\ kiLeft' = kiLeft)
            => (pc' = "r_excret" /\ ~mon_running')
       /\ (pc = "r_excret" /\ pc' # pc /\ kiLeft' = kiLeft)
            => /\ pc' = "d_fin1" /\ ~mon_running'
               /\ result'.kind = "Result" /\ ~result'.success
               /\ result'.error_message = << "str(e)", pending >>
               /\ pending \in RunnerExceptions]_vars

\* Popen raised, the renderer was stopped and the runner returned Failed
C15_Witness ==
    /\ pc = "d_fin1" /\ sub = "" /\ ~kiSeen /\ ~mon_running
    /\ child = "none"
    /\ result = ResultObj(FALSE, NoSize, << "str(e)", "FileNotFoundError" >>)

\* C16: parsing  frame=120 fps=30 time=00:00:04.00 bitrate=1000kbits/s
\* speed=2.0x  sets fps to 30, time to 00:00:04, bitrate to 1000kbits/s and
\* speed to 2.0x, and leaves size, drop and dup as they were.
C16_ScenarioLine ==
    [][(pc = "parse_line" /\ lineArg = ScenarioLine)
          => stats' = [stats EXCEPT
                         !.fps = << "3", "0" >>,
                         !.time = << "0", "0", ":", "0", "0", ":", "0", "4" >>,
                         !.bitrate = << "1", "0", "0", "0", "k", "b", "i", "t", "s", "/", "s" >>,
                         !.speed = << "2", ".", "0", "x" >>]]_vars

IsPrefix(a, b) == Len(a) <= Len(b) /\ SubSeq(b, 1, Len(a)) = a

\* the tokens of the line of C16
ScenarioTokens ==
    << FrameToken, TokenOf("fps"), TokenOf("time"), TokenOf("bitrate"),
       TokenOf("speed") >>

\* C17: for a line made of well-formed tokens and any prior snapshot, the
\* fields whose token is in the line, all of them, are rewritten from their
\* token, and every other field keeps its prior value.
C17_ExactlyPresentFields ==
    [][\A ts \in (TokenSeqs(ValidTokens) \ {<< >>}) \cup {ScenarioTokens} :
         (pc = "parse_line" /\ lineArg = Join(ts)) =>
            \A f \in StatFields :
               IF \E i \in 1..Len(ts) : ts[i] = TokenOf(f)
                 THEN /\ stats'[f] # stats[f]
                      /\ stats'[f] # << >>
                      /\ IsPrefix(stats'[f], ValueOf(f))
                 ELSE stats'[f] = stats[f]]_vars

\* size=1024kB drop=5 was parsed over the snapshot of earlier lines: size
\* and drop are rewritten, the other fields are as before
C17_Witness ==
    /\ pc = "parse_done"
    /\ lineArg = Join(<< TokenOf("size"), TokenOf("drop") >>)
    /\ stats = [OtherStats EXCEPT !.size = << "1", "0", "2", "4", "k", "B" >>,
                                  !.drop = << "5" >>]

\* C18: parsing a malformed or empty line leaves every field of the
\* snapshot as it was.
C18_MalformedIgnored ==
    [][(pc = "parse_line" /\ lineArg \in MalformedLines)
          => stats' = stats]_vars

\* C19: when the runner returned None the workflow reports the cancellation
\* and never a failure; a failed result of a download in which the flag
\* was never set and no KeyboardInterrupt came is never reported cancelled.
C19_CancelledNotFailed ==
    op = "download" =>
        /\ result.kind = "None" =>
              /\ "Failed" \notin msgs
              /\ pc \in {"d_fin2", "d_fin2b"} => "Cancelled" \in msgs
        /\ (result.kind = "Result" /\ ~result.success /\ ~quitHist /\ ~kiSeen)
              => "Cancelled" \notin msgs

\* the runner returned None and the workflow reported the cancellation
C19_Witness ==
    /\ op = "download" /\ pc = "d_fin2" /\ sub = "" /\ ~kiSeen
    /\ result.kind = "None" /\ msgs = {"Cancelled"}

\* C20: when stdin is not a terminal, start_listening is not blocked, no
\* listener thread gets past entering raw mode, the terminal is left as it
\* was and the flag is never true.
C20_NoRawInputIsNoOp ==
    platform = "notty" =>
        /\ ~should_quit
        /\ term = "cooked"
        /\ \A t \in Threads : lt[t].pc \in {"none", "t_init"}
        /\ (pc \in StartListeningPcs /\ sub = "")
              => ENABLED StartListeningReset
        /\ (pc \in StartListeningPcs /\ sub = "spawn")
              => ENABLED StartListeningSpawn

\* without a terminal a download ran to completion and was reported
C20_Witness ==
    /\ platform = "notty" /\ op = "download" /\ pc = "d_fin2"
    /\ msgs = {"Completed"} /\ ~should_quit

\* statements of the runner that print a message (lines 517 and 522)
RunnerPrintPcs == {"r_term", "r_kill"}

\* a renderer has been started and its stop call has not been made
RendererActive == mon_running \/ trk_running

\* C21: while a renderer is active no other part of the program writes to
\* the terminal: the runner prints nothing, and no outcome message is
\* printed, between the start of the renderer and its stop call.
C21_NoPrintWhileRendering ==
    [][/\ (pc \in RunnerPrintPcs /\ pc' # pc /\ kiLeft' = kiLeft)
            => ~RendererActive
       /\ msgs' # msgs => ~RendererActive]_vars

\* C22: over one supervised operation the stop calls of its renderer write
\* one final newline, not more, on every exit path: when control is back
\* at the menu after an operation whose renderer ran, exactly one was
\* written.
C22_OneFinalNewline ==
    /\ final_newlines <= 1
    /\ (pc = "menu" /\ (child # "none" \/ result.kind = "Result"))
          => final_newlines = 1

\* C23: once the flag is true, the listener loop and both renderer loops
\* cannot stay in their loop at their next test, the pump loop cannot go
\* on to another read at its test, and a read in progress does not keep
\* the pump loop from reaching its test.
C23_LoopsObserveSignal ==
    should_quit =>
        /\ \A t \in Threads :
              ~ENABLED (ListenerPoll(t) /\ lt'[t].pc # "none")
        /\ ~ENABLED (DisplayStatsStep /\ mon_thread' = "alive")
        /\ ~ENABLED (DisplayProgressStep /\ trk_thread' = "alive")
        /\ ~ENABLED (RunnerCheck /\ pc' = "r_read")
        /\ pc = "r_read" => ENABLED RunnerRead

\* C24: when the flag is true when the split workflow inspects it after the
\* library call, the only message printed is the cancellation, whether the
\* call succeeded or failed: nothing of its result is shown.
C24_LibraryResultDiscarded ==
    (op = "split" /\ quitAtReport) => msgs = {"Cancelled"}

\* the library call succeeded, the flag was true when the workflow looked
\* at it, and the cancellation was reported
C24_Witness ==
    /\ op = "split" /\ pc = "s_fin2" /\ sub = "" /\ ~kiSeen
    /\ quitAtReport /\ result.kind = "Result" /\ result.success
    /\ msgs = {"Cancelled"}

\* C25: with no cancellation the pump loop is left for the classification
\* only when the stream is at its end and the child has exited; an empty
\* read while the child runs sends the loop back to its test, and no result
\* exists while the runner is in the loop.
C25_PumpEndsOnlyAtEofAndExit ==
    /\ (pc \in {"r_poll", "r_stop", "r_classify"} /\ ~termSent)
          => (child = "exited" /\ ~pipe_open /\ ~line_ready)
    /\ pc \in PumpLoopPcs => (result.kind = "unset" /\ msgs = {})

\* the child closed its output and still runs, the flag is false: the
\* runner is in its loop and nothing has been reported
C25_Witness ==
    /\ pc = "r_check" /\ child = "running" /\ ~pipe_open /\ ~line_ready
    /\ ~should_quit /\ ~quitHist /\ ~kiSeen /\ result.kind = "unset"

\* C26: every status line _display_stats writes has at most 120
\* characters, whatever the operation name and the values of the fields.
C26_StatusLineWidth ==
    Len(stats_line) <= 120

\* a line that was longer than 120 characters was written cut
C26_Witness ==
    /\ Len(StatusLine(operation_name, stats)) > 120
    /\ stats_line = SubSeq(StatusLine(operation_name, stats), 1, 115)
                       \o << ".", ".", "." >>

\* C27: execute_workflow leaves with True or False, never with an
\* exception; with True only when scale_and_encode returned success.
C27_AlwaysReturnsBoolean ==
    pc = "w_done" =>
        /\ pending \in {"True", "False"}
        /\ pending = "True" => (result.kind = "Result" /\ result.success)

\* C28: at most one listener thread is alive at any time, a thread that is
\* alive while listening is true is the thread of the last start_listening,
\* and no thread has saved raw mode as the settings to restore.
C28_SingleListener ==
    /\ NumAlive <= 1
    /\ \A t \in Threads : (Alive(t) /\ listening) => t = listener_thread
    /\ \A t \in Threads : lt[t].old # "raw"

\* C29: terminate is sent only when the flag is true, kill only after
\* terminate and a grace-period wait that timed out on a running child;
\* a child that had exited when the wait returned is not killed.
C29_EscalationOrder ==
    /\ termSent => should_quit
    /\ (pc = "r_kill" \/ killSent) => (termSent /\ graceTimedOut)
    /\ graceTimedOut => termSent

\* terminate was sent, the child exited within the grace period and the
\* runner went on without killing it
C29_Witness ==
    /\ pc = "r_stop" /\ termSent /\ ~graceTimedOut /\ ~killSent
    /\ child = "exited" /\ ~kiSeen

\* C30: a supervised operation reports one outcome: of the success,
\* failure and cancellation messages at most one is printed, and exactly
\* one has been printed when execute_workflow has returned.
C30_OneOutcome ==
    /\ Cardinality(msgs) <= 1
    /\ (pc = "w_done" /\ pending \in {"True", "False"})
          => Cardinality(msgs) = 1

====
